---------------------------- MODULE Spec2Model ----------------------------
(***************************************************************************)
(* A model of pykeio/vibe: the effect state machine of src/lib.rs          *)
(* (VIBE_STATE, setup, apply_effect, clear_effects, force_theme) over the  *)
(* capability dispatch of src/dwm_win32.rs (WVER, the capability          *)
(* predicates, the apply and clear sequences), together with the native    *)
(* attributes of the windows the calls                                     *)
(* act on.                                                                 *)
(***************************************************************************)
EXTENDS Integers, Sequences, FiniteSets

(***************************************************************************)
(* Program constants.                                                      *)
(***************************************************************************)
DWMWA_USE_IMMERSIVE_DARK_MODE == 20
DWMWA_MICA_EFFECT == 1029
DWMWA_SYSTEMBACKDROP_TYPE == 38

ACCENT_DISABLED == 0
ACCENT_ENABLE_BLURBEHIND == 3
ACCENT_ENABLE_ACRYLICBLURBEHIND == 4

DWMSBT_DISABLE == 1
DWMSBT_MAINWINDOW == 2
DWMSBT_TRANSIENTWINDOW == 3

\* WINDOWCOMPOSITIONATTRIBDATA.Attrib = 0x13 (the accent policy)
WCA_ACCENT_POLICY == 19

\* build thresholds of the capability predicates
BUILD_WIN10_1809 == 17763
BUILD_WIN11 == 22000
BUILD_WIN11_22H2 == 22621

(***************************************************************************)
(* Inputs of the model.                                                    *)
(***************************************************************************)
\* (dwMajorVersion, dwMinorVersion, dwBuildNumber) triples RtlGetVersion may
\* report; the builds sit on both sides of every threshold.
Versions ==
    { <<6, 0, 6002>>, <<6, 1, 7601>>, <<6, 2, 9200>>,
      <<10, 0, 17762>>, <<10, 0, 17763>>, <<10, 0, 21999>>,
      <<10, 0, 22000>>, <<10, 0, 22620>>, <<10, 0, 22621>>,
      <<10, 0, 26100>> }

Builds == { v[3] : v \in Versions }

\* window handles (HWND) the host may pass in
Windows == {1, 2}

\* the window of a single-window application
MainWindow == {1}

\* the `effect` argument: the four names of the match in apply_effect, and
\* names outside it (the match is case-sensitive)
EffectNames == {"mica", "acrylic", "unified-acrylic", "blurbehind", "bogus", "Mica"}
ValidEffects == {"mica", "acrylic", "unified-acrylic", "blurbehind"}

\* the `theme` argument of force_theme
ThemeNames == {"dark", "light", "auto"}

\* the optional `colour` argument: omitted, a string csscolorparser rejects,
\* or a string parsed to RGBA bytes (alpha 0 and alpha > 0)
ColourArgs ==
    { [kind |-> "omitted", rgba |-> <<0, 0, 0, 0>>],
      [kind |-> "unparsable", rgba |-> <<0, 0, 0, 0>>],
      [kind |-> "rgba", rgba |-> <<255, 0, 0, 0>>],
      [kind |-> "rgba", rgba |-> <<18, 52, 86, 100>>] }

(***************************************************************************)
(* State.                                                                  *)
(***************************************************************************)
VARIABLES
    VIBE_STATE,   \* the process-wide VibeState behind the RwLock
    WVER,         \* the cached OS version triple
    swca,         \* whether get_function! yields Some for SetWindowCompositionAttribute
    native,       \* per window: frame margins, DWM attributes, accent policy
    switches,     \* how many times commandLine.appendSwitch was called
    op,           \* the last call: operation, window, arguments, state before
    result,       \* what the last call returned or threw
    calls,        \* the native calls the last call issued, in order
    hwnds,        \* the windows the host application has created
    rtl,          \* how the RtlGetVersion query behind WVER goes on this machine
    swcaProc,     \* what GetProcAddress gave for SetWindowCompositionAttribute
    health,       \* the process: running, RwLock poisoned by a panic, or dead
    threads,      \* per calling thread: the call in progress and its position
    lock          \* the RwLock around VIBE_STATE: reader set and writer

vars ==
    << VIBE_STATE, WVER, swca, native, switches, op, result, calls, hwnds,
       rtl, swcaProc, health, threads, lock >>

VibeState ==
    {"Uninitialized", "Initialized", "Acrylic", "UnifiedAcrylic", "Blurbehind", "Mica"}

ActiveStates == {"Acrylic", "UnifiedAcrylic", "Blurbehind", "Mica"}

\* Result<_, VibeError> as seen by the caller
Ok == [kind |-> "Ok", arg |-> ""]
UnsupportedPlatform(msg) == [kind |-> "UnsupportedPlatform", arg |-> msg]
UnknownEffect(effect) == [kind |-> "UnknownEffect", arg |-> effect]
UnknownTheme(theme) == [kind |-> "UnknownTheme", arg |-> theme]
Uninitialized == [kind |-> "Uninitialized", arg |-> ""]

(***************************************************************************)
(* The version prober.                                                     *)
(***************************************************************************)
is_win7(v) == v[1] > 6 \/ (v[1] = 6 /\ v[2] = 1)

is_win10_1809(v) == v[3] >= BUILD_WIN10_1809 /\ v[3] < BUILD_WIN11

\* mutant: Windows 11 recognised only up to the 22H2 threshold
is_win11_below_22h2(v) == v[3] >= BUILD_WIN11 /\ v[3] < BUILD_WIN11_22H2

is_win11(v) == v[3] >= BUILD_WIN11

is_win11_22h2(v) == v[3] >= BUILD_WIN11_22H2

(***************************************************************************)
(* The native side.  A world is [win, calls]: the windows' attributes and  *)
(* the log of native calls issued so far by the running operation.         *)
(***************************************************************************)
AttrIds ==
    { DWMWA_USE_IMMERSIVE_DARK_MODE - 1, DWMWA_USE_IMMERSIVE_DARK_MODE,
      DWMWA_SYSTEMBACKDROP_TYPE, DWMWA_MICA_EFFECT }

\* a freshly created window: no margins, every attribute at its default 0,
\* accent policy disabled
FreshWindow ==
    [ margins |-> 0,
      attrs |-> [a \in AttrIds |-> 0],
      accent |-> [AccentState |-> ACCENT_DISABLED, AccentFlags |-> 0, GradientColour |-> 0] ]

NativeCall(fn, hwnd, attr, value, flags, colour) ==
    [fn |-> fn, hwnd |-> hwnd, attr |-> attr, value |-> value, flags |-> flags, colour |-> colour]

DwmSetWindowAttribute(w, hwnd, attr, value) ==
    [ win |-> [w.win EXCEPT ![hwnd].attrs[attr] = value],
      calls |-> Append(w.calls, NativeCall("DwmSetWindowAttribute", hwnd, attr, value, 0, 0)) ]

\* all four MARGINS fields carry the same value m
DwmExtendFrameIntoClientArea(w, hwnd, m) ==
    [ win |-> [w.win EXCEPT ![hwnd].margins = m],
      calls |-> Append(w.calls, NativeCall("DwmExtendFrameIntoClientArea", hwnd, 0, m, 0, 0)) ]

SetWindowCompositionAttribute(w, hwnd, policy) ==
    [ win |-> [w.win EXCEPT ![hwnd].accent = policy],
      calls |-> Append(w.calls,
                   NativeCall("SetWindowCompositionAttribute", hwnd, WCA_ACCENT_POLICY,
                              policy.AccentState, policy.AccentFlags, policy.GradientColour)) ]

\* colour[0] | colour[1] << 8 | colour[2] << 16 | colour[3] << 24
GradientColourOf(colour) ==
    colour[1] + colour[2] * 256 + colour[3] * 65536 + colour[4] * 16777216

\* colour is [some, rgba]: Option<[u8; 4]>
None == [some |-> FALSE, rgba |-> <<0, 0, 0, 0>>]
Some(rgba) == [some |-> TRUE, rgba |-> rgba]
unwrap_or(opt, default) == IF opt.some THEN opt.rgba ELSE default

\* mutant: the alpha of an acrylic accent left as given
set_accent_policy_keeps_alpha(sw, w, hwnd, accent_state, colour) ==
    IF sw
    THEN LET c == unwrap_or(colour, <<0, 0, 0, 0>>)
             is_acrylic == accent_state = ACCENT_ENABLE_ACRYLICBLURBEHIND
             policy == [ AccentState |-> accent_state,
                         AccentFlags |-> IF is_acrylic THEN 0 ELSE 2,
                         GradientColour |-> GradientColourOf(c) ]
         IN  SetWindowCompositionAttribute(w, hwnd, policy)
    ELSE w

set_accent_policy(sw, w, hwnd, accent_state, colour) ==
    IF sw
    THEN LET c0 == unwrap_or(colour, <<0, 0, 0, 0>>)
             is_acrylic == accent_state = ACCENT_ENABLE_ACRYLICBLURBEHIND
             c == IF is_acrylic /\ c0[4] = 0 THEN [c0 EXCEPT ![4] = 1] ELSE c0
             policy == [ AccentState |-> accent_state,
                         AccentFlags |-> IF is_acrylic THEN 0 ELSE 2,
                         GradientColour |-> GradientColourOf(c) ]
         IN  SetWindowCompositionAttribute(w, hwnd, policy)
    ELSE w

extend_client_area(w, hwnd) == DwmExtendFrameIntoClientArea(w, hwnd, -1)

reset_client_area(w, hwnd) == DwmExtendFrameIntoClientArea(w, hwnd, 0)

(***************************************************************************)
(* dwm_win32: the theme, apply and clear sequences.  Each returns          *)
(* [res, w]: the Result and the world after the native calls it issued.    *)
(***************************************************************************)
force_dark_theme(v, w, hwnd) ==
    IF is_win11(v)
    THEN [res |-> Ok, w |-> DwmSetWindowAttribute(w, hwnd, DWMWA_USE_IMMERSIVE_DARK_MODE, 1)]
    ELSE IF is_win10_1809(v)
    THEN [res |-> Ok, w |-> DwmSetWindowAttribute(w, hwnd, DWMWA_USE_IMMERSIVE_DARK_MODE - 1, 1)]
    ELSE [res |-> UnsupportedPlatform("force_dark_theme"), w |-> w]

force_light_theme(v, w, hwnd) ==
    IF is_win11(v)
    THEN [res |-> Ok, w |-> DwmSetWindowAttribute(w, hwnd, DWMWA_USE_IMMERSIVE_DARK_MODE, 0)]
    ELSE IF is_win10_1809(v)
    THEN [res |-> Ok, w |-> DwmSetWindowAttribute(w, hwnd, DWMWA_USE_IMMERSIVE_DARK_MODE - 1, 0)]
    ELSE [res |-> UnsupportedPlatform("force_light_theme"), w |-> w]

\* mutant: the apply path chosen without regard to the unified flag
apply_acrylic_ignores_unified(v, sw, w, hwnd, unified, acrylic_blurbehind, colour) ==
    IF is_win11_22h2(v)
    THEN [ res |-> Ok,
           w |-> DwmSetWindowAttribute(extend_client_area(w, hwnd), hwnd,
                                       DWMWA_SYSTEMBACKDROP_TYPE, DWMSBT_TRANSIENTWINDOW) ]
    ELSE IF is_win7(v)
    THEN [ res |-> Ok,
           w |-> set_accent_policy(sw, w, hwnd,
                                   IF acrylic_blurbehind
                                   THEN ACCENT_ENABLE_ACRYLICBLURBEHIND
                                   ELSE ACCENT_ENABLE_BLURBEHIND,
                                   Some(unwrap_or(colour, <<40, 40, 40, 0>>))) ]
    ELSE [res |-> UnsupportedPlatform("apply_acrylic"), w |-> w]

apply_acrylic(v, sw, w, hwnd, unified, acrylic_blurbehind, colour) ==
    IF ~unified /\ is_win11_22h2(v)
    THEN [ res |-> Ok,
           w |-> DwmSetWindowAttribute(extend_client_area(w, hwnd), hwnd,
                                       DWMWA_SYSTEMBACKDROP_TYPE, DWMSBT_TRANSIENTWINDOW) ]
    ELSE IF is_win7(v)
    THEN [ res |-> Ok,
           w |-> set_accent_policy(sw, w, hwnd,
                                   IF acrylic_blurbehind
                                   THEN ACCENT_ENABLE_ACRYLICBLURBEHIND
                                   ELSE ACCENT_ENABLE_BLURBEHIND,
                                   Some(unwrap_or(colour, <<40, 40, 40, 0>>))) ]
    ELSE [res |-> UnsupportedPlatform("apply_acrylic"), w |-> w]

\* mutant: the clear path chosen without regard to the unified flag
clear_acrylic_ignores_unified(v, sw, w, hwnd, unified) ==
    IF is_win11_22h2(v)
    THEN [ res |-> Ok,
           w |-> DwmSetWindowAttribute(reset_client_area(w, hwnd), hwnd,
                                       DWMWA_SYSTEMBACKDROP_TYPE, DWMSBT_DISABLE) ]
    ELSE IF is_win7(v)
    THEN [res |-> Ok, w |-> set_accent_policy(sw, w, hwnd, ACCENT_DISABLED, None)]
    ELSE [res |-> UnsupportedPlatform("clear_acrylic"), w |-> w]

clear_acrylic(v, sw, w, hwnd, unified) ==
    IF ~unified /\ is_win11_22h2(v)
    THEN [ res |-> Ok,
           w |-> DwmSetWindowAttribute(reset_client_area(w, hwnd), hwnd,
                                       DWMWA_SYSTEMBACKDROP_TYPE, DWMSBT_DISABLE) ]
    ELSE IF is_win7(v)
    THEN [res |-> Ok, w |-> set_accent_policy(sw, w, hwnd, ACCENT_DISABLED, None)]
    ELSE [res |-> UnsupportedPlatform("clear_acrylic"), w |-> w]

\* mutant: the Windows 11 base capability tested before the backdrop API
apply_mica_legacy_first(v, w, hwnd) ==
    IF is_win11(v)
    THEN [ res |-> Ok,
           w |-> DwmSetWindowAttribute(extend_client_area(w, hwnd), hwnd, DWMWA_MICA_EFFECT, 1) ]
    ELSE IF is_win11_22h2(v)
    THEN [ res |-> Ok,
           w |-> DwmSetWindowAttribute(extend_client_area(w, hwnd), hwnd,
                                       DWMWA_SYSTEMBACKDROP_TYPE, DWMSBT_MAINWINDOW) ]
    ELSE [res |-> UnsupportedPlatform("apply_mica"), w |-> w]

apply_mica(v, w, hwnd) ==
    IF is_win11_22h2(v)
    THEN [ res |-> Ok,
           w |-> DwmSetWindowAttribute(extend_client_area(w, hwnd), hwnd,
                                       DWMWA_SYSTEMBACKDROP_TYPE, DWMSBT_MAINWINDOW) ]
    ELSE IF is_win11(v)
    THEN [ res |-> Ok,
           w |-> DwmSetWindowAttribute(extend_client_area(w, hwnd), hwnd, DWMWA_MICA_EFFECT, 1) ]
    ELSE [res |-> UnsupportedPlatform("apply_mica"), w |-> w]

\* mutant: the Mica clear always goes through the backdrop type
clear_mica_backdrop_only(v, w, hwnd) ==
    IF is_win11(v)
    THEN [ res |-> Ok,
           w |-> DwmSetWindowAttribute(reset_client_area(w, hwnd), hwnd,
                                       DWMWA_SYSTEMBACKDROP_TYPE, DWMSBT_DISABLE) ]
    ELSE [res |-> UnsupportedPlatform("clear_mica"), w |-> w]

clear_mica(v, w, hwnd) ==
    IF is_win11_22h2(v)
    THEN [ res |-> Ok,
           w |-> DwmSetWindowAttribute(reset_client_area(w, hwnd), hwnd,
                                       DWMWA_SYSTEMBACKDROP_TYPE, DWMSBT_DISABLE) ]
    ELSE IF is_win11(v)
    THEN [ res |-> Ok,
           w |-> DwmSetWindowAttribute(reset_client_area(w, hwnd), hwnd, DWMWA_MICA_EFFECT, 0) ]
    ELSE [res |-> UnsupportedPlatform("clear_mica"), w |-> w]

(***************************************************************************)
(* lib.rs: the exported operations as functions of the state they read.    *)
(* Each returns [state, win, calls, result, ...].                          *)
(***************************************************************************)
\* mutant: the Initialized arm disables the accent policy all the same
reverse_recorded_clears_always(v, sw, st, w, hwnd) ==
    CASE st = "Uninitialized" -> [res |-> Uninitialized, w |-> w]
      [] st = "Mica" -> [res |-> Ok, w |-> clear_mica(v, w, hwnd).w]
      [] st \in {"Initialized", "UnifiedAcrylic", "Blurbehind"} ->
            [res |-> Ok, w |-> clear_acrylic(v, sw, w, hwnd, TRUE).w]
      [] st = "Acrylic" -> [res |-> Ok, w |-> clear_acrylic(v, sw, w, hwnd, FALSE).w]

\* mutant: the Uninitialized arm falls through like Initialized
reverse_recorded_unchecked(v, sw, st, w, hwnd) ==
    CASE st \in {"Uninitialized", "Initialized"} -> [res |-> Ok, w |-> w]
      [] st = "Mica" -> [res |-> Ok, w |-> clear_mica(v, w, hwnd).w]
      [] st \in {"UnifiedAcrylic", "Blurbehind"} ->
            [res |-> Ok, w |-> clear_acrylic(v, sw, w, hwnd, TRUE).w]
      [] st = "Acrylic" -> [res |-> Ok, w |-> clear_acrylic(v, sw, w, hwnd, FALSE).w]

\* mutant: the Result of the clear sequence propagated (?) instead of dropped
reverse_recorded_propagates(v, sw, st, w, hwnd) ==
    CASE st = "Uninitialized" -> [res |-> Uninitialized, w |-> w]
      [] st = "Initialized" -> [res |-> Ok, w |-> w]
      [] st = "Mica" -> clear_mica(v, w, hwnd)
      [] st \in {"UnifiedAcrylic", "Blurbehind"} -> clear_acrylic(v, sw, w, hwnd, TRUE)
      [] st = "Acrylic" -> clear_acrylic(v, sw, w, hwnd, FALSE)

\* mutant: the unified flags of the two clear_acrylic arms exchanged
reverse_recorded_flags_swapped(v, sw, st, w, hwnd) ==
    CASE st = "Uninitialized" -> [res |-> Uninitialized, w |-> w]
      [] st = "Initialized" -> [res |-> Ok, w |-> w]
      [] st = "Mica" -> [res |-> Ok, w |-> clear_mica(v, w, hwnd).w]
      [] st \in {"UnifiedAcrylic", "Blurbehind"} ->
            [res |-> Ok, w |-> clear_acrylic(v, sw, w, hwnd, FALSE).w]
      [] st = "Acrylic" -> [res |-> Ok, w |-> clear_acrylic(v, sw, w, hwnd, TRUE).w]

\* the match on *state under the read lock, shared by apply_effect and
\* clear_effects: the Result of the clear sequence is dropped (let _ =)
reverse_recorded(v, sw, st, w, hwnd) ==
    CASE st = "Uninitialized" -> [res |-> Uninitialized, w |-> w]
      [] st = "Initialized" -> [res |-> Ok, w |-> w]
      [] st = "Mica" -> [res |-> Ok, w |-> clear_mica(v, w, hwnd).w]
      [] st \in {"UnifiedAcrylic", "Blurbehind"} ->
            [res |-> Ok, w |-> clear_acrylic(v, sw, w, hwnd, TRUE).w]
      [] st = "Acrylic" -> [res |-> Ok, w |-> clear_acrylic(v, sw, w, hwnd, FALSE).w]

\* csscolorparser::parse(..).to_rgba8(): Err and an absent argument give None
parse_colour(colour) == IF colour.kind = "rgba" THEN Some(colour.rgba) ELSE None

\* mutant: the effect name matched without regard to case
apply_requested_any_case(v, sw, w, hwnd, effect, colour) ==
    CASE effect = "acrylic" ->
            LET r == apply_acrylic(v, sw, w, hwnd, FALSE, TRUE, parse_colour(colour))
            IN  [res |-> r.res, w |-> r.w, variant |-> "Acrylic"]
      [] effect = "unified-acrylic" ->
            LET r == apply_acrylic(v, sw, w, hwnd, TRUE, TRUE, parse_colour(colour))
            IN  [res |-> r.res, w |-> r.w, variant |-> "UnifiedAcrylic"]
      [] effect = "blurbehind" ->
            LET r == apply_acrylic(v, sw, w, hwnd, TRUE, FALSE, parse_colour(colour))
            IN  [res |-> r.res, w |-> r.w, variant |-> "Blurbehind"]
      [] effect \in {"mica", "Mica"} ->
            LET r == apply_mica(v, w, hwnd)
            IN  [res |-> r.res, w |-> r.w, variant |-> "Mica"]
      [] OTHER -> [res |-> UnknownEffect(effect), w |-> w, variant |-> ""]

\* the match on effect.as_str() under the write lock
apply_requested(v, sw, w, hwnd, effect, colour) ==
    CASE effect = "acrylic" ->
            LET r == apply_acrylic(v, sw, w, hwnd, FALSE, TRUE, parse_colour(colour))
            IN  [res |-> r.res, w |-> r.w, variant |-> "Acrylic"]
      [] effect = "unified-acrylic" ->
            LET r == apply_acrylic(v, sw, w, hwnd, TRUE, TRUE, parse_colour(colour))
            IN  [res |-> r.res, w |-> r.w, variant |-> "UnifiedAcrylic"]
      [] effect = "blurbehind" ->
            LET r == apply_acrylic(v, sw, w, hwnd, TRUE, FALSE, parse_colour(colour))
            IN  [res |-> r.res, w |-> r.w, variant |-> "Blurbehind"]
      [] effect = "mica" ->
            LET r == apply_mica(v, w, hwnd)
            IN  [res |-> r.res, w |-> r.w, variant |-> "Mica"]
      [] OTHER -> [res |-> UnknownEffect(effect), w |-> w, variant |-> ""]

apply_effect(v, sw, st, win, hwnd, effect, colour) ==
    LET w0 == [win |-> win, calls |-> << >>]
        rev == reverse_recorded(v, sw, st, w0, hwnd)
    IN  IF rev.res # Ok
        THEN [state |-> st, win |-> win, calls |-> << >>, result |-> rev.res]
        ELSE LET app == apply_requested(v, sw, rev.w, hwnd, effect, colour)
             IN  [ state |-> IF app.res = Ok THEN app.variant ELSE st,
                   win |-> app.w.win,
                   calls |-> app.w.calls,
                   result |-> app.res ]

\* mutant: the reversal issued on the application's first window
clear_effects_on_main(v, sw, st, win, hwnd) ==
    LET w0 == [win |-> win, calls |-> << >>]
        rev == reverse_recorded(v, sw, st, w0, 1)
    IN  IF rev.res # Ok
        THEN [state |-> st, win |-> win, calls |-> << >>, result |-> rev.res]
        ELSE [state |-> "Initialized", win |-> rev.w.win, calls |-> rev.w.calls, result |-> Ok]

clear_effects(v, sw, st, win, hwnd) ==
    LET w0 == [win |-> win, calls |-> << >>]
        rev == reverse_recorded(v, sw, st, w0, hwnd)
    IN  IF rev.res # Ok
        THEN [state |-> st, win |-> win, calls |-> << >>, result |-> rev.res]
        ELSE [state |-> "Initialized", win |-> rev.w.win, calls |-> rev.w.calls, result |-> Ok]

\* the Result of force_dark_theme / force_light_theme is dropped (let _ =)
force_theme(v, win, hwnd, theme) ==
    LET w0 == [win |-> win, calls |-> << >>]
    IN  CASE theme = "dark" ->
                LET r == force_dark_theme(v, w0, hwnd)
                IN  [win |-> r.w.win, calls |-> r.w.calls, result |-> Ok]
          [] theme = "light" ->
                LET r == force_light_theme(v, w0, hwnd)
                IN  [win |-> r.w.win, calls |-> r.w.calls, result |-> Ok]
          [] OTHER -> [win |-> win, calls |-> << >>, result |-> UnknownTheme(theme)]

\* mutant: no early return for a state past Uninitialized
setup_unconditional(st, n) == [state |-> "Initialized", switches |-> n + 1]

setup(st, n) ==
    IF st # "Uninitialized"
    THEN [state |-> st, switches |-> n]
    ELSE [state |-> "Initialized", switches |-> n + 1]

(***************************************************************************)
(* The machine the process runs on.  WVER is a Lazy cell filled on its     *)
(* first read by get_function!("ntdll.dll", RtlGetVersion).unwrap() and a  *)
(* call of the pointer whose status is dropped; set_accent_policy resolves *)
(* SetWindowCompositionAttribute the same way on every call.               *)
(* get_function_impl wraps whatever GetProcAddress returns in Some, so a   *)
(* missing export is a null function pointer: calling it is undefined      *)
(* behaviour, and a run either faults there or carries on as if the call   *)
(* had returned without doing anything.                                    *)
(***************************************************************************)
RtlOutcomes == {"ok", "status", "nolib", "null_faults", "null_returns"}

SwcaOutcomes == {"found", "null_faults", "null_returns"}

\* what a failed query leaves in the zero-initialised OSVERSIONINFOW
ZeroVersion == <<0, 0, 0>>

\* a Rust panic unwinding into the host, and the death of the process
Panic == [kind |-> "Panic", arg |-> ""]
Crash == [kind |-> "Crash", arg |-> ""]

IsSwcaCall(c) == c.fn = "SetWindowCompositionAttribute"

NotSwcaCall(c) == ~IsSwcaCall(c)

\* position of the first SetWindowCompositionAttribute call in cs, 0 if none
FirstSwca(cs) ==
    IF \E i \in 1..Len(cs) : IsSwcaCall(cs[i])
    THEN CHOOSE i \in 1..Len(cs) :
            IsSwcaCall(cs[i]) /\ \A j \in 1..(i - 1) : ~IsSwcaCall(cs[j])
    ELSE 0

\* the windows after the native calls cs have run on win
RECURSIVE Replay(_, _)
Replay(win, cs) ==
    IF cs = << >>
    THEN win
    ELSE LET c == Head(cs)
             w == [win |-> win, calls |-> << >>]
             after ==
                 CASE c.fn = "DwmSetWindowAttribute" ->
                        DwmSetWindowAttribute(w, c.hwnd, c.attr, c.value)
                   [] c.fn = "DwmExtendFrameIntoClientArea" ->
                        DwmExtendFrameIntoClientArea(w, c.hwnd, c.value)
                   [] OTHER ->
                        SetWindowCompositionAttribute(w, c.hwnd,
                            [ AccentState |-> c.value, AccentFlags |-> c.flags,
                              GradientColour |-> c.colour ])
         IN  Replay(after.win, Tail(cs))

\* the lock held at a call's first read of WVER; "none" if it reads none
WverRead(name, st, arg) ==
    CASE name = "applyEffect" ->
             IF st \in ActiveStates THEN "read"
             ELSE IF st = "Initialized" /\ arg \in ValidEffects THEN "write"
             ELSE "none"
      [] name = "clearEffects" -> IF st \in ActiveStates THEN "read" ELSE "none"
      [] name = "forceTheme" -> IF arg \in {"dark", "light"} THEN "unlocked" ELSE "none"
      [] OTHER -> "none"

\* What a call that would do r on a sound machine does on this one.  st and
\* win are the state and windows before the call, takesLock whether it
\* starts with VIBE_STATE.read().unwrap(), wverRead as given by WverRead.
Outcome(st, win, r, takesLock, wverRead) ==
    IF takesLock /\ health = "poisoned"
    THEN [state |-> st, win |-> win, calls |-> << >>, result |-> Panic, health |-> health]
    ELSE IF wverRead # "none" /\ rtl = "nolib"
    THEN [ state |-> st, win |-> win, calls |-> << >>, result |-> Panic,
           health |-> IF wverRead = "write" THEN "poisoned" ELSE health ]
    ELSE IF wverRead # "none" /\ rtl = "null_faults"
    THEN [state |-> st, win |-> win, calls |-> << >>, result |-> Crash, health |-> "crashed"]
    ELSE IF swca /\ swcaProc = "null_faults" /\ FirstSwca(r.calls) > 0
    THEN LET cs == SubSeq(r.calls, 1, FirstSwca(r.calls) - 1)
         IN  [ state |-> st, win |-> Replay(win, cs), calls |-> cs,
               result |-> Crash, health |-> "crashed" ]
    ELSE IF swca /\ swcaProc = "null_returns"
    THEN LET cs == SelectSeq(r.calls, NotSwcaCall)
         IN  [ state |-> r.state, win |-> Replay(win, cs), calls |-> cs,
               result |-> r.result, health |-> health ]
    ELSE [ state |-> r.state, win |-> r.win, calls |-> r.calls,
           result |-> r.result, health |-> health ]

(***************************************************************************)
(* The state machine: calls arrive one at a time (the host's event loop).  *)
(***************************************************************************)
NoColour == [kind |-> "omitted", rgba |-> <<0, 0, 0, 0>>]

OpRecord(name, hwnd, arg, colour, pre) ==
    [name |-> name, hwnd |-> hwnd, arg |-> arg, colour |-> colour, pre |-> pre]

\* the threads of the host that may call into the addon
Threads == {"main", "worker"}

IdleThread ==
    [ pc |-> "idle", name |-> "none", hwnd |-> 0, arg |-> "", colour |-> NoColour,
      pre |-> "Uninitialized", calls |-> << >> ]

FreeLock == [readers |-> {}, writer |-> "nobody"]

\* everything but the machine: the process right after the addon is loaded
StartOn(W) ==
    /\ VIBE_STATE = "Uninitialized"
    /\ hwnds = W
    /\ native = [h \in W |-> FreshWindow]
    /\ switches = 0
    /\ op = OpRecord("none", 0, "", NoColour, "Uninitialized")
    /\ result = Ok
    /\ calls = << >>
    /\ health = "ok"
    /\ threads = [t \in Threads |-> IdleThread]
    /\ lock = FreeLock

\* a machine where both exports resolve whenever their library loads
InitOn(W) ==
    /\ StartOn(W)
    /\ WVER \in Versions
    /\ swca \in BOOLEAN
    /\ rtl = "ok"
    /\ swcaProc = "found"

\* an application with one window
Init == InitOn(MainWindow)

Setup ==
    /\ health # "crashed"
    /\ LET r == setup(VIBE_STATE, switches)
           poisoned == health = "poisoned"
       IN  /\ VIBE_STATE' = IF poisoned THEN VIBE_STATE ELSE r.state
           /\ switches' = IF poisoned THEN switches ELSE r.switches
           /\ op' = OpRecord("setup", 0, "", NoColour, VIBE_STATE)
           /\ result' = IF poisoned THEN Panic ELSE Ok
           /\ calls' = << >>
           /\ UNCHANGED <<WVER, swca, native, hwnds, rtl, swcaProc, health, threads, lock>>

\* applyEffect with an effect name of effects and a colour of colours
ApplyEffectWith(effects, colours) ==
    /\ health # "crashed"
    /\ \E hwnd \in hwnds, effect \in effects, colour \in colours :
        LET r == apply_effect(WVER, swca, VIBE_STATE, native, hwnd, effect, colour)
            o == Outcome(VIBE_STATE, native, r, TRUE,
                         WverRead("applyEffect", VIBE_STATE, effect))
        IN  /\ VIBE_STATE' = o.state
            /\ native' = o.win
            /\ calls' = o.calls
            /\ result' = o.result
            /\ health' = o.health
            /\ op' = OpRecord("applyEffect", hwnd, effect, colour, VIBE_STATE)
            /\ UNCHANGED <<WVER, swca, switches, hwnds, rtl, swcaProc, threads, lock>>

ApplyEffect == ApplyEffectWith(EffectNames, ColourArgs)

ClearEffects ==
    /\ health # "crashed"
    /\ \E hwnd \in hwnds :
        LET r == clear_effects(WVER, swca, VIBE_STATE, native, hwnd)
            o == Outcome(VIBE_STATE, native, r, TRUE,
                         WverRead("clearEffects", VIBE_STATE, ""))
        IN  /\ VIBE_STATE' = o.state
            /\ native' = o.win
            /\ calls' = o.calls
            /\ result' = o.result
            /\ health' = o.health
            /\ op' = OpRecord("clearEffects", hwnd, "", NoColour, VIBE_STATE)
            /\ UNCHANGED <<WVER, swca, switches, hwnds, rtl, swcaProc, threads, lock>>

\* mutant: a theme change that also commits a state, as clear_effects does
ForceTheme_commits ==
    /\ health # "crashed"
    /\ \E hwnd \in hwnds, theme \in ThemeNames :
        LET f == force_theme(WVER, native, hwnd, theme)
            r == [state |-> VIBE_STATE, win |-> f.win, calls |-> f.calls, result |-> f.result]
            o == Outcome(VIBE_STATE, native, r, FALSE,
                         WverRead("forceTheme", VIBE_STATE, theme))
        IN  /\ VIBE_STATE' = IF VIBE_STATE \in ActiveStates THEN "Initialized" ELSE VIBE_STATE
            /\ native' = o.win
            /\ calls' = o.calls
            /\ result' = o.result
            /\ health' = o.health
            /\ op' = OpRecord("forceTheme", hwnd, theme, NoColour, VIBE_STATE)
            /\ UNCHANGED <<WVER, swca, switches, hwnds, rtl, swcaProc, threads, lock>>

ForceTheme ==
    /\ health # "crashed"
    /\ \E hwnd \in hwnds, theme \in ThemeNames :
        LET f == force_theme(WVER, native, hwnd, theme)
            r == [state |-> VIBE_STATE, win |-> f.win, calls |-> f.calls, result |-> f.result]
            o == Outcome(VIBE_STATE, native, r, FALSE,
                         WverRead("forceTheme", VIBE_STATE, theme))
        IN  /\ native' = o.win
            /\ calls' = o.calls
            /\ result' = o.result
            /\ health' = o.health
            /\ op' = OpRecord("forceTheme", hwnd, theme, NoColour, VIBE_STATE)
            /\ UNCHANGED <<VIBE_STATE, WVER, swca, switches, hwnds, rtl, swcaProc, threads, lock>>

Next == Setup \/ ApplyEffect \/ ClearEffects \/ ForceTheme

Spec == Init /\ [][Next]_vars

\* any machine: the version query and the composition export may fail
InitEnv ==
    /\ StartOn(MainWindow)
    /\ rtl \in RtlOutcomes
    /\ WVER \in (IF rtl = "ok" THEN Versions ELSE {ZeroVersion})
    /\ swca \in BOOLEAN
    /\ swcaProc \in (IF swca THEN SwcaOutcomes ELSE {"found"})

SpecEnv == InitEnv /\ [][Next]_vars

(***************************************************************************)
(* Calls from several threads at once.  VIBE_STATE sits behind an RwLock;  *)
(* a call is a sequence of steps, one per lock section:                    *)
(*   setup          the check under a read guard dropped at once, then     *)
(*                  appendSwitch with no lock held, then the write of      *)
(*                  Initialized under a write guard;                       *)
(*   apply_effect,  the match on the recorded state with its clear         *)
(*   clear_effects  sequence under the read guard, then, the guard         *)
(*                  released, the apply sequence and the assignment of     *)
(*                  the state under the write guard;                       *)
(*   force_theme    takes no lock.                                         *)
(* The native calls of one lock section are taken as one step: the clear   *)
(* sequences of concurrent readers belong to the same recorded state and   *)
(* each call sets one attribute to a fixed value, and force_theme sets an  *)
(* attribute no effect sequence touches.                                   *)
(***************************************************************************)
ConcVersions == { <<6, 1, 7601>>, <<10, 0, 22000>>, <<10, 0, 22621>> }

ConcEffects == {"mica", "acrylic", "blurbehind", "bogus"}

InitConc ==
    /\ StartOn(MainWindow)
    /\ WVER \in ConcVersions
    /\ swca = TRUE
    /\ rtl = "ok"
    /\ swcaProc = "found"

\* RwLock::read and RwLock::write block while the guard cannot be handed out
CanRead == lock.writer = "nobody"

CanWrite == lock.writer = "nobody" /\ lock.readers = {}

\* mutant: an apply that fails forgets that setup has run
state_after_reset_on_error(name, st, res, variant) ==
    IF name = "clearEffects" THEN "Initialized"
    ELSE IF res = Ok THEN variant ELSE "Uninitialized"

\* the state a call leaves under its write guard: clear_effects assigns
\* Initialized, apply_effect assigns the variant in its Ok arms only
state_after(name, st, res, variant) ==
    IF name = "clearEffects" THEN "Initialized"
    ELSE IF res = Ok THEN variant ELSE st

\* thread t's call returns res, having issued the native calls cs
Return(t, res, cs) ==
    /\ threads' = [threads EXCEPT ![t] = IdleThread]
    /\ op' = OpRecord(threads[t].name, threads[t].hwnd, threads[t].arg,
                      threads[t].colour, threads[t].pre)
    /\ result' = res
    /\ calls' = cs

\* the host calls setup, applyEffect with an effect of effects, or
\* clearEffects on thread t
CallWith(t, effects) ==
    /\ threads[t].pc = "idle"
    /\ \/ threads' = [threads EXCEPT ![t] =
                         [IdleThread EXCEPT !.pc = "setup_check", !.name = "setup"]]
       \/ \E hwnd \in hwnds, effect \in effects :
             threads' = [threads EXCEPT ![t] =
                            [IdleThread EXCEPT !.pc = "read_lock", !.name = "applyEffect",
                                               !.hwnd = hwnd, !.arg = effect]]
       \/ \E hwnd \in hwnds :
             threads' = [threads EXCEPT ![t] =
                            [IdleThread EXCEPT !.pc = "read_lock", !.name = "clearEffects",
                                               !.hwnd = hwnd]]
    /\ UNCHANGED << VIBE_STATE, WVER, swca, native, switches, op, result, calls, hwnds,
                    rtl, swcaProc, health, lock >>

Call(t) == CallWith(t, ConcEffects)

\* if *VIBE_STATE.read().unwrap() != VibeState::Uninitialized { return }
SetupCheck(t) ==
    /\ threads[t].pc = "setup_check"
    /\ CanRead
    /\ IF VIBE_STATE # "Uninitialized"
       THEN Return(t, Ok, << >>)
       ELSE /\ threads' = [threads EXCEPT ![t].pc = "setup_append"]
            /\ UNCHANGED <<op, result, calls>>
    /\ UNCHANGED << VIBE_STATE, WVER, swca, native, switches, hwnds,
                    rtl, swcaProc, health, lock >>

\* app.commandLine.appendSwitch("enable-transparent-visuals")
SetupAppend(t) ==
    /\ threads[t].pc = "setup_append"
    /\ switches' = switches + 1
    /\ threads' = [threads EXCEPT ![t].pc = "setup_lock"]
    /\ UNCHANGED << VIBE_STATE, WVER, swca, native, op, result, calls, hwnds,
                    rtl, swcaProc, health, lock >>

\* VIBE_STATE.read()
AcquireRead(t) ==
    /\ threads[t].pc = "read_lock"
    /\ CanRead
    /\ lock' = [lock EXCEPT !.readers = @ \cup {t}]
    /\ threads' = [threads EXCEPT ![t].pc = "reverse"]
    /\ UNCHANGED << VIBE_STATE, WVER, swca, native, switches, op, result, calls, hwnds,
                    rtl, swcaProc, health >>

\* mutant: the read guard lives to the end of the function, not of the block
Reverse_keeps_guard(t) ==
    /\ threads[t].pc = "reverse"
    /\ LET rev == reverse_recorded(WVER, swca, VIBE_STATE,
                                   [win |-> native, calls |-> << >>], threads[t].hwnd)
       IN  /\ native' = rev.w.win
           /\ IF rev.res # Ok
              THEN /\ Return(t, rev.res, << >>)
                   /\ lock' = [lock EXCEPT !.readers = @ \ {t}]
              ELSE /\ threads' = [threads EXCEPT ![t].pc = "write_lock",
                                                 ![t].pre = VIBE_STATE,
                                                 ![t].calls = rev.w.calls]
                   /\ UNCHANGED <<op, result, calls, lock>>
    /\ UNCHANGED <<VIBE_STATE, WVER, swca, switches, hwnds, rtl, swcaProc, health>>

\* the match on *state under the read guard, and the guard's release
Reverse(t) ==
    /\ threads[t].pc = "reverse"
    /\ LET rev == reverse_recorded(WVER, swca, VIBE_STATE,
                                   [win |-> native, calls |-> << >>], threads[t].hwnd)
       IN  /\ native' = rev.w.win
           /\ IF rev.res # Ok
              THEN Return(t, rev.res, << >>)
              ELSE /\ threads' = [threads EXCEPT ![t].pc = "write_lock",
                                                 ![t].pre = VIBE_STATE,
                                                 ![t].calls = rev.w.calls]
                   /\ UNCHANGED <<op, result, calls>>
    /\ lock' = [lock EXCEPT !.readers = @ \ {t}]
    /\ UNCHANGED <<VIBE_STATE, WVER, swca, switches, hwnds, rtl, swcaProc, health>>

\* VIBE_STATE.write()
AcquireWrite(t) ==
    /\ threads[t].pc \in {"setup_lock", "write_lock"}
    /\ CanWrite
    /\ lock' = [lock EXCEPT !.writer = t]
    /\ threads' = [threads EXCEPT ![t].pc =
                      IF threads[t].pc = "setup_lock" THEN "setup_commit" ELSE "commit"]
    /\ UNCHANGED << VIBE_STATE, WVER, swca, native, switches, op, result, calls, hwnds,
                    rtl, swcaProc, health >>

\* *VIBE_STATE.write().unwrap() = VibeState::Initialized
SetupCommit(t) ==
    /\ threads[t].pc = "setup_commit"
    /\ VIBE_STATE' = "Initialized"
    /\ lock' = [lock EXCEPT !.writer = "nobody"]
    /\ Return(t, Ok, << >>)
    /\ UNCHANGED <<WVER, swca, native, switches, hwnds, rtl, swcaProc, health>>

\* the apply sequence and the assignment under the write guard
Commit(t) ==
    /\ threads[t].pc = "commit"
    /\ LET w == [win |-> native, calls |-> threads[t].calls]
           app == IF threads[t].name = "clearEffects"
                  THEN [res |-> Ok, w |-> w, variant |-> "Initialized"]
                  ELSE apply_requested(WVER, swca, w, threads[t].hwnd,
                                       threads[t].arg, threads[t].colour)
       IN  /\ native' = app.w.win
           /\ VIBE_STATE' = state_after(threads[t].name, VIBE_STATE, app.res, app.variant)
           /\ Return(t, app.res, app.w.calls)
    /\ lock' = [lock EXCEPT !.writer = "nobody"]
    /\ UNCHANGED <<WVER, swca, switches, hwnds, rtl, swcaProc, health>>

\* forceTheme on thread t: no lock, one native call
ThemeCall(t) ==
    /\ threads[t].pc = "idle"
    /\ \E hwnd \in hwnds, theme \in ThemeNames :
          LET r == force_theme(WVER, native, hwnd, theme)
          IN  /\ native' = r.win
              /\ calls' = r.calls
              /\ result' = r.result
              /\ op' = OpRecord("forceTheme", hwnd, theme, NoColour, VIBE_STATE)
    /\ UNCHANGED << VIBE_STATE, WVER, swca, switches, hwnds, rtl, swcaProc, health,
                    threads, lock >>

NextConc ==
    \E t \in Threads :
        \/ Call(t)
        \/ SetupCheck(t)
        \/ SetupAppend(t)
        \/ AcquireRead(t)
        \/ Reverse(t)
        \/ AcquireWrite(t)
        \/ SetupCommit(t)
        \/ Commit(t)
        \/ ThemeCall(t)

SpecConc == InitConc /\ [][NextConc]_vars

(***************************************************************************)
(* Progress of the locking protocol.  The steps that take a lock are the   *)
(* only ones that can wait; every other step of a call runs to its end on  *)
(* its own thread.  The scheduler lets every thread run (weak fairness of  *)
(* the steps that never wait) and the lock is handed to a thread that      *)
(* finds it free again and again (strong fairness of the acquisitions).    *)
(* The host is free to call or not, and forceTheme takes no lock.          *)
(***************************************************************************)
LiveVersions == { <<10, 0, 22000>> }

\* one effect the version supports and one name no effect has
LiveEffects == {"mica", "bogus"}

InitLive ==
    /\ StartOn(MainWindow)
    /\ WVER \in LiveVersions
    /\ swca = TRUE
    /\ rtl = "ok"
    /\ swcaProc = "found"

NextLive ==
    \E t \in Threads :
        \/ CallWith(t, LiveEffects)
        \/ SetupCheck(t)
        \/ SetupAppend(t)
        \/ AcquireRead(t)
        \/ Reverse(t)
        \/ AcquireWrite(t)
        \/ SetupCommit(t)
        \/ Commit(t)

\* the step of thread t that never waits, and the one that may wait for
\* the lock; at most one of them is enabled, by the thread's position
Runs(t) == SetupAppend(t) \/ Reverse(t) \/ SetupCommit(t) \/ Commit(t)

Acquires(t) == SetupCheck(t) \/ AcquireRead(t) \/ AcquireWrite(t)

Fairness == \A t \in Threads : WF_vars(Runs(t)) /\ SF_vars(Acquires(t))

SpecLive == InitLive /\ [][NextLive]_vars /\ Fairness

(***************************************************************************)
(* An application with two windows, calls one at a time.                   *)
(***************************************************************************)
InitTwo ==
    /\ StartOn(Windows)
    /\ WVER \in ConcVersions
    /\ swca = TRUE
    /\ rtl = "ok"
    /\ swcaProc = "found"

NextTwo == Setup \/ ApplyEffectWith(ConcEffects, {NoColour}) \/ ClearEffects \/ ForceTheme

SpecTwo == InitTwo /\ [][NextTwo]_vars

TypeOK ==
    /\ VIBE_STATE \in VibeState
    /\ WVER \in Versions \cup {ZeroVersion}
    /\ swca \in BOOLEAN
    /\ switches \in 0..2
    /\ hwnds \subseteq Windows
    /\ op.pre \in VibeState
    /\ rtl \in RtlOutcomes
    /\ swcaProc \in SwcaOutcomes
    /\ health \in {"ok", "poisoned", "crashed"}

(***************************************************************************)
(* Properties.  A state records the last call (op), what it returned       *)
(* (result) and the native calls it issued (calls), so a property of one   *)
(* call is a predicate of the state right after it.                        *)
(***************************************************************************)
AcrylicClass == {"acrylic", "unified-acrylic", "blurbehind"}

\* C1: when applyEffect fails with UnknownEffect or UnsupportedPlatform from
\* an active-effect state, the state after the call is Initialized.
C1_FailedApplyLeavesInitialized ==
    ( /\ op.name = "applyEffect"
      /\ op.pre \in ActiveStates
      /\ result.kind \in {"UnknownEffect", "UnsupportedPlatform"} )
    => VIBE_STATE = "Initialized"

\* C2: forceTheme("dark" | "light") on a build with neither dark-mode
\* capability returns UnsupportedPlatform to the caller and issues no native
\* call.
C2_ForceThemeUnsupportedIsReported ==
    ( /\ op.name = "forceTheme"
      /\ op.arg \in {"dark", "light"}
      /\ WVER[3] < BUILD_WIN10_1809 )
    => (result.kind = "UnsupportedPlatform" /\ calls = << >>)

\* C3: applyEffect in state Uninitialized fails with Uninitialized
\* (NotInitialized) for every effect name, valid or not, issues no native
\* call and leaves the state Uninitialized.
C3_ApplyBeforeSetupFails ==
    (op.name = "applyEffect" /\ op.pre = "Uninitialized")
    => /\ result = Uninitialized
       /\ calls = << >>
       /\ VIBE_STATE = "Uninitialized"

\* C3 witness: an invalid name met the uninitialized check first
C3_Witness ==
    /\ op.name = "applyEffect"
    /\ op.pre = "Uninitialized"
    /\ op.arg = "bogus"
    /\ result = Uninitialized

\* C4: applyEffect with a name outside the four effects, in state
\* Initialized, fails with UnknownEffect carrying the name, issues no native
\* call and leaves the state Initialized.
C4_UnknownEffectAtInitialized ==
    (op.name = "applyEffect" /\ op.pre = "Initialized" /\ op.arg \notin ValidEffects)
    => /\ result.kind = "UnknownEffect"
       /\ result.arg = op.arg
       /\ calls = << >>
       /\ VIBE_STATE = "Initialized"

\* C4 witness: the differently-cased "Mica" was refused at Initialized
C4_Witness ==
    /\ op.name = "applyEffect"
    /\ op.pre = "Initialized"
    /\ op.arg = "Mica"
    /\ result = UnknownEffect("Mica")
    /\ VIBE_STATE = "Initialized"

\* C5: clearEffects from an active-effect state ends in Initialized and
\* reports success; and for every version and every recorded effect,
\* including those whose native clear sequence returns UnsupportedPlatform,
\* the handler still commits Initialized and returns Ok.
C5_ClearAlwaysInitialized ==
    /\ (op.name = "clearEffects" /\ op.pre \in ActiveStates)
       => (VIBE_STATE = "Initialized" /\ result = Ok)
    /\ \A v \in Versions, st \in ActiveStates, h \in hwnds :
          LET r == clear_effects(v, swca, st, native, h)
          IN  r.state = "Initialized" /\ r.result = Ok

\* C5 witness: a clear of a recorded Mica went through the native sequence
C5_Witness ==
    /\ op.name = "clearEffects"
    /\ op.pre = "Mica"
    /\ VIBE_STATE = "Initialized"
    /\ Len(calls) = 2

(***************************************************************************)
(* Reading the native call log: which compositor mechanism a call drives   *)
(* and whether it switches the mechanism on or off.                        *)
(***************************************************************************)
IsMargins(c) == c.fn = "DwmExtendFrameIntoClientArea"
IsBackdrop(c) == c.fn = "DwmSetWindowAttribute" /\ c.attr = DWMWA_SYSTEMBACKDROP_TYPE
IsLegacyMica(c) == c.fn = "DwmSetWindowAttribute" /\ c.attr = DWMWA_MICA_EFFECT
IsAccent(c) == c.fn = "SetWindowCompositionAttribute" /\ c.attr = WCA_ACCENT_POLICY

MechanismOfCall(c) ==
    CASE IsBackdrop(c) -> "backdrop"
      [] IsLegacyMica(c) -> "legacy-mica"
      [] IsAccent(c) -> "accent"
      [] OTHER -> "other"

SwitchesOff(c) ==
    \/ IsMargins(c) /\ c.value = 0
    \/ IsBackdrop(c) /\ c.value = DWMSBT_DISABLE
    \/ IsLegacyMica(c) /\ c.value = 0
    \/ IsAccent(c) /\ c.value = ACCENT_DISABLED

SwitchesOn(c) ==
    \/ IsMargins(c) /\ c.value = -1
    \/ IsBackdrop(c) /\ c.value \in {DWMSBT_MAINWINDOW, DWMSBT_TRANSIENTWINDOW}
    \/ IsLegacyMica(c) /\ c.value = 1
    \/ IsAccent(c) /\ c.value \in {ACCENT_ENABLE_BLURBEHIND, ACCENT_ENABLE_ACRYLICBLURBEHIND}

\* the mechanism an effect is driven through on a version
MechanismOn(v, variant) ==
    CASE variant = "Mica" -> IF v[3] >= BUILD_WIN11_22H2 THEN "backdrop" ELSE "legacy-mica"
      [] variant = "Acrylic" -> IF v[3] >= BUILD_WIN11_22H2 THEN "backdrop" ELSE "accent"
      [] OTHER -> "accent"

VariantOf(effect) ==
    CASE effect = "mica" -> "Mica"
      [] effect = "acrylic" -> "Acrylic"
      [] effect = "unified-acrylic" -> "UnifiedAcrylic"
      [] effect = "blurbehind" -> "Blurbehind"
      [] OTHER -> "none"

\* the versions on which the apply sequence of an effect has a path
Supported(v, effect) ==
    CASE effect = "mica" -> v[3] >= BUILD_WIN11
      [] effect = "acrylic" -> v[3] >= BUILD_WIN11_22H2 \/ is_win7(v)
      [] OTHER -> is_win7(v)

\* whether calls on a mechanism reach the window at all: the accent policy
\* is set through an entry point resolved at call time
Reaches(mech) == mech # "accent" \/ swca

\* calls[1..k] is a clear sequence of mechanism m on window h
IsClearOf(cs, m, h) ==
    /\ \A i \in 1..Len(cs) :
          /\ cs[i].hwnd = h
          /\ SwitchesOff(cs[i])
          /\ IsMargins(cs[i]) \/ MechanismOfCall(cs[i]) = m
    /\ Reaches(m) <=> \E i \in 1..Len(cs) : MechanismOfCall(cs[i]) = m

\* cs is an apply sequence of mechanism m on window h
IsApplyOf(cs, m, h) ==
    /\ \A i \in 1..Len(cs) :
          /\ cs[i].hwnd = h
          /\ SwitchesOn(cs[i])
          /\ IsMargins(cs[i]) \/ MechanismOfCall(cs[i]) = m
    /\ Reaches(m) <=> \E i \in 1..Len(cs) : MechanismOfCall(cs[i]) = m

\* C6: on a version that supports the requested effect Y, applyEffect(Y)
\* from a state recording X issues the clear sequence of X's mechanism
\* strictly before the apply sequence of Y's mechanism, and commits Y; from
\* Initialized it issues the apply sequence alone.
C6_ClearRecordedBeforeApply ==
    ( /\ op.name = "applyEffect"
      /\ op.arg \in ValidEffects
      /\ Supported(WVER, op.arg) )
    => /\ op.pre \in ActiveStates =>
            /\ result = Ok
            /\ VIBE_STATE = VariantOf(op.arg)
            /\ \E k \in 0..Len(calls) :
                  /\ IsClearOf(SubSeq(calls, 1, k), MechanismOn(WVER, op.pre), op.hwnd)
                  /\ IsApplyOf(SubSeq(calls, k + 1, Len(calls)),
                               MechanismOn(WVER, VariantOf(op.arg)), op.hwnd)
       /\ op.pre = "Initialized" =>
            /\ result = Ok
            /\ VIBE_STATE = VariantOf(op.arg)
            /\ IsApplyOf(calls, MechanismOn(WVER, VariantOf(op.arg)), op.hwnd)

\* C6 witness: mica then acrylic on a build with the backdrop API: the Mica
\* clear (margins reset, backdrop disabled) precedes the Acrylic apply
C6_Witness ==
    /\ op.name = "applyEffect"
    /\ op.pre = "Mica"
    /\ op.arg = "acrylic"
    /\ VIBE_STATE = "Acrylic"
    /\ calls = << NativeCall("DwmExtendFrameIntoClientArea", 1, 0, 0, 0, 0),
                  NativeCall("DwmSetWindowAttribute", 1, DWMWA_SYSTEMBACKDROP_TYPE,
                             DWMSBT_DISABLE, 0, 0),
                  NativeCall("DwmExtendFrameIntoClientArea", 1, 0, -1, 0, 0),
                  NativeCall("DwmSetWindowAttribute", 1, DWMWA_SYSTEMBACKDROP_TYPE,
                             DWMSBT_TRANSIENTWINDOW, 0, 0) >>

\* the compositor effects natively active on a window
BackdropActive(win) ==
    win.attrs[DWMWA_SYSTEMBACKDROP_TYPE] \in {DWMSBT_MAINWINDOW, DWMSBT_TRANSIENTWINDOW}
LegacyMicaActive(win) == win.attrs[DWMWA_MICA_EFFECT] = 1
AccentActive(win) ==
    win.accent.AccentState \in {ACCENT_ENABLE_BLURBEHIND, ACCENT_ENABLE_ACRYLICBLURBEHIND}

ActiveEffects(win) ==
    (IF BackdropActive(win) THEN 1 ELSE 0)
    + (IF LegacyMicaActive(win) THEN 1 ELSE 0)
    + (IF AccentActive(win) THEN 1 ELSE 0)

\* C7: after any sequence of calls on the application's single window, at
\* most one compositor effect is natively active on it.
C7_AtMostOneEffectActive ==
    \A h \in hwnds : ActiveEffects(native[h]) <= 1

\* C7 witness: a second effect replaced a first one driven through another
\* mechanism, and exactly one is active
C7_Witness ==
    /\ op.name = "applyEffect"
    /\ op.pre = "UnifiedAcrylic"
    /\ VIBE_STATE = "Mica"
    /\ swca
    /\ BackdropActive(native[op.hwnd])
    /\ ActiveEffects(native[op.hwnd]) = 1

\* the version triple of WVER with another build number
WithBuild(v, b) == <<v[1], v[2], b>>

\* C8 as claimed: each of the four capability predicates, once true for a
\* build, is true for every larger build.
C8_AllPredicatesMonotonic ==
    \A b \in Builds :
        b >= WVER[3] =>
            /\ is_win7(WVER) => is_win7(WithBuild(WVER, b))
            /\ is_win10_1809(WVER) => is_win10_1809(WithBuild(WVER, b))
            /\ is_win11(WVER) => is_win11(WithBuild(WVER, b))
            /\ is_win11_22h2(WVER) => is_win11_22h2(WithBuild(WVER, b))

\* C8 amended: is_win11 and is_win11_22h2 are monotonic in the build number
\* (over the version triples and over the build alone), is_win7 does not
\* read the build number, and is_win10_1809 stays true only up to build
\* 21999: it is false from build 22000 on.
C8_MonotonicExceptWin10Band ==
    /\ \A v \in Versions :
          v[3] >= WVER[3] =>
              /\ is_win11(WVER) => is_win11(v)
              /\ is_win11_22h2(WVER) => is_win11_22h2(v)
    /\ \A b \in Builds :
          /\ is_win7(WithBuild(WVER, b)) = is_win7(WVER)
          /\ b >= WVER[3] =>
                /\ is_win11(WVER) => is_win11(WithBuild(WVER, b))
                /\ is_win11_22h2(WVER) => is_win11_22h2(WithBuild(WVER, b))
                /\ (is_win10_1809(WVER) /\ b < BUILD_WIN11) => is_win10_1809(WithBuild(WVER, b))
          /\ b >= BUILD_WIN11 => ~is_win10_1809(WithBuild(WVER, b))

\* C8 witness: the program runs on the first Windows 11 build, larger builds
\* exist, and the Windows 11 capability has just been used by an apply
C8_Witness ==
    /\ WVER[3] = BUILD_WIN11
    /\ is_win11(WVER)
    /\ \E b \in Builds : b > WVER[3]
    /\ op.name = "applyEffect"
    /\ op.arg = "mica"
    /\ result = Ok

\* C9: on every version at or above (6, 1), applyEffect with an
\* acrylic-class effect does not fail with UnsupportedPlatform.
C9_AcrylicClassSinceWin7 ==
    ( /\ op.name = "applyEffect"
      /\ op.arg \in AcrylicClass
      /\ WVER[1] > 6 \/ (WVER[1] = 6 /\ WVER[2] >= 1) )
    => result.kind # "UnsupportedPlatform"

\* C10: applyEffect("mica") from Initialized fails with UnsupportedPlatform,
\* without a native call and staying Initialized, below build 22000; extends
\* the client area and sets the backdrop type to main-window from build
\* 22621 on; extends the client area and sets the legacy Mica attribute on
\* builds 22000..22620; the last two commit Mica.
C10_MicaFromInitialized ==
    (op.name = "applyEffect" /\ op.arg = "mica" /\ op.pre = "Initialized")
    => /\ WVER[3] < BUILD_WIN11 =>
            /\ result.kind = "UnsupportedPlatform"
            /\ calls = << >>
            /\ VIBE_STATE = "Initialized"
       /\ WVER[3] >= BUILD_WIN11_22H2 =>
            /\ result = Ok
            /\ calls = << NativeCall("DwmExtendFrameIntoClientArea", op.hwnd, 0, -1, 0, 0),
                          NativeCall("DwmSetWindowAttribute", op.hwnd,
                                     DWMWA_SYSTEMBACKDROP_TYPE, DWMSBT_MAINWINDOW, 0, 0) >>
            /\ VIBE_STATE = "Mica"
       /\ (WVER[3] >= BUILD_WIN11 /\ WVER[3] < BUILD_WIN11_22H2) =>
            /\ result = Ok
            /\ calls = << NativeCall("DwmExtendFrameIntoClientArea", op.hwnd, 0, -1, 0, 0),
                          NativeCall("DwmSetWindowAttribute", op.hwnd,
                                     DWMWA_MICA_EFFECT, 1, 0, 0) >>
            /\ VIBE_STATE = "Mica"

\* C10 witness: the legacy path on the last build before the backdrop API
C10_Witness ==
    /\ op.name = "applyEffect"
    /\ op.arg = "mica"
    /\ op.pre = "Initialized"
    /\ WVER[3] = BUILD_WIN11_22H2 - 1
    /\ VIBE_STATE = "Mica"
    /\ native[op.hwnd].attrs[DWMWA_MICA_EFFECT] = 1
    /\ native[op.hwnd].margins = -1

\* the calls of the log that switch a mechanism on: the apply sequence
ApplyPart(cs) == SelectSeq(cs, SwitchesOn)

\* C11: of the acrylic-class requests only "acrylic" on a build >= 22621
\* takes the backdrop path (extend client area, backdrop type transient);
\* every other one takes the legacy composition call wherever is_win7 holds,
\* acrylic-blur for acrylic and unified-acrylic, plain blur for blurbehind
\* (the call is issued when its entry point resolves); success commits
\* Acrylic, UnifiedAcrylic or Blurbehind; elsewhere the request fails with
\* UnsupportedPlatform.
C11_AcrylicClassStrategy ==
    (op.name = "applyEffect" /\ op.arg \in AcrylicClass /\ op.pre # "Uninitialized")
    => LET on == ApplyPart(calls)
       IN  IF op.arg = "acrylic" /\ WVER[3] >= BUILD_WIN11_22H2
           THEN /\ result = Ok
                /\ VIBE_STATE = "Acrylic"
                /\ on = << NativeCall("DwmExtendFrameIntoClientArea", op.hwnd, 0, -1, 0, 0),
                           NativeCall("DwmSetWindowAttribute", op.hwnd,
                                      DWMWA_SYSTEMBACKDROP_TYPE, DWMSBT_TRANSIENTWINDOW, 0, 0) >>
           ELSE IF is_win7(WVER)
           THEN /\ result = Ok
                /\ VIBE_STATE = VariantOf(op.arg)
                /\ swca => /\ Len(on) = 1
                           /\ IsAccent(on[1])
                           /\ on[1].hwnd = op.hwnd
                           /\ on[1].value = IF op.arg = "blurbehind"
                                            THEN ACCENT_ENABLE_BLURBEHIND
                                            ELSE ACCENT_ENABLE_ACRYLICBLURBEHIND
                /\ ~swca => on = << >>
           ELSE /\ result.kind = "UnsupportedPlatform"
                /\ on = << >>
                /\ VIBE_STATE = op.pre

\* C11 witness: unified-acrylic on a build with the backdrop API still went
\* through the legacy composition call, in acrylic-blur mode
C11_Witness ==
    /\ op.name = "applyEffect"
    /\ op.arg = "unified-acrylic"
    /\ WVER[3] >= BUILD_WIN11_22H2
    /\ VIBE_STATE = "UnifiedAcrylic"
    /\ \E i \in 1..Len(calls) :
          IsAccent(calls[i]) /\ calls[i].value = ACCENT_ENABLE_ACRYLICBLURBEHIND

\* the bytes of a forwarded GradientColour, lowest first: (r, g, b, a)
BytesOf(n) == << n % 256, (n \div 256) % 256, (n \div 65536) % 256, (n \div 16777216) % 256 >>

\* the colour an argument stands for: its parsed RGBA, or (40, 40, 40, 0)
\* when it is omitted or does not parse
RequestedRGBA(colour) == IF colour.kind = "rgba" THEN colour.rgba ELSE <<40, 40, 40, 0>>

AlphaForced(rgba) == IF rgba[4] = 0 THEN [rgba EXCEPT ![4] = 1] ELSE rgba

\* C12 as claimed: on every acrylic-class request the RGBA handed to the
\* composition call is the requested one with an alpha of 0 replaced by 1.
C12_AlphaForcedOnAcrylicClass ==
    (op.name = "applyEffect" /\ op.arg \in AcrylicClass)
    => \A i \in 1..Len(calls) :
          (IsAccent(calls[i]) /\ SwitchesOn(calls[i]))
          => BytesOf(calls[i].colour) = AlphaForced(RequestedRGBA(op.colour))

\* C12 amended: the alpha of 0 is replaced by 1 on acrylic and
\* unified-acrylic (accent state acrylic-blur) only; on blurbehind the
\* requested RGBA, alpha 0 included, is handed over unchanged.
C12_AlphaForcedOnAcrylicBlurOnly ==
    (op.name = "applyEffect" /\ op.arg \in AcrylicClass)
    => \A i \in 1..Len(calls) :
          (IsAccent(calls[i]) /\ SwitchesOn(calls[i]))
          => BytesOf(calls[i].colour) =
                IF op.arg = "blurbehind"
                THEN RequestedRGBA(op.colour)
                ELSE AlphaForced(RequestedRGBA(op.colour))

\* C12 witness: a parsed colour with alpha 0 reached the composition call of
\* an acrylic request with alpha 1
C12_Witness ==
    /\ op.name = "applyEffect"
    /\ op.arg = "acrylic"
    /\ op.colour = [kind |-> "rgba", rgba |-> <<255, 0, 0, 0>>]
    /\ Len(calls) > 0
    /\ IsAccent(calls[Len(calls)])
    /\ BytesOf(calls[Len(calls)].colour) = <<255, 0, 0, 1>>
    /\ BytesOf(native[op.hwnd].accent.GradientColour) = <<255, 0, 0, 1>>

\* C13: forceTheme leaves the effect state as it was, for every state,
\* theme name and version.
C13_ForceThemeKeepsState ==
    op.name = "forceTheme" => VIBE_STATE = op.pre

\* C13 witness: a theme was set natively on a window whose Mica is recorded
C13_Witness ==
    /\ op.name = "forceTheme"
    /\ op.arg = "dark"
    /\ op.pre = "Mica"
    /\ VIBE_STATE = "Mica"
    /\ Len(calls) = 1
    /\ native[op.hwnd].attrs[DWMWA_USE_IMMERSIVE_DARK_MODE] = 1

\* C14: clearEffects in state Initialized keeps the state, issues no native
\* call and succeeds; and a second clearEffects right after a first gives
\* the state and window attributes the first one gave.
C14_ClearAtInitializedIsNoOp ==
    /\ (op.name = "clearEffects" /\ op.pre = "Initialized")
       => (VIBE_STATE = "Initialized" /\ calls = << >> /\ result = Ok)
    /\ VIBE_STATE # "Uninitialized" =>
          \A h \in hwnds :
              LET once == clear_effects(WVER, swca, VIBE_STATE, native, h)
                  twice == clear_effects(WVER, swca, once.state, once.win, h)
              IN  /\ twice.state = once.state
                  /\ twice.win = once.win
                  /\ twice.calls = << >>
                  /\ twice.result = Ok

\* C14 witness: a clear at Initialized on a window whose backdrop an earlier
\* clear had already disabled
C14_Witness ==
    /\ op.name = "clearEffects"
    /\ op.pre = "Initialized"
    /\ VIBE_STATE = "Initialized"
    /\ calls = << >>
    /\ native[op.hwnd].attrs[DWMWA_SYSTEMBACKDROP_TYPE] = DWMSBT_DISABLE

\* C15: setup from Uninitialized appends the switch once and commits
\* Initialized; from any other state it keeps the state, active effects
\* included, and appends nothing; so the switch is appended exactly once.
C15_SetupIdempotent ==
    /\ op.name = "setup" =>
          /\ op.pre = "Uninitialized" => VIBE_STATE = "Initialized"
          /\ op.pre # "Uninitialized" => VIBE_STATE = op.pre
          /\ switches = 1
    /\ switches = (IF VIBE_STATE = "Uninitialized" THEN 0 ELSE 1)
    /\ LET once == setup(VIBE_STATE, switches)
       IN  setup(once.state, once.switches) = once

\* C15 witness: setup called again while Mica is recorded
C15_Witness ==
    /\ op.name = "setup"
    /\ op.pre = "Mica"
    /\ VIBE_STATE = "Mica"
    /\ switches = 1

\* the capability predicates, all false on the version cached in WVER
AllPredicatesFalse ==
    ~is_win7(WVER) /\ ~is_win10_1809(WVER) /\ ~is_win11(WVER) /\ ~is_win11_22h2(WVER)

\* C17: when the version query cannot be performed (RtlGetVersion does not
\* resolve, or returns a failure status) every capability predicate is
\* false, a request for a known effect made at Initialized ends in
\* UnsupportedPlatform, and no call panics or kills the process.
C17_VersionQueryFailureAbsorbed ==
    rtl # "ok"
    => /\ AllPredicatesFalse
       /\ result.kind \notin {"Panic", "Crash"}
       /\ health = "ok"
       /\ (op.name = "applyEffect" /\ op.pre = "Initialized" /\ op.arg \in ValidEffects)
          => result.kind = "UnsupportedPlatform"

\* the request of the last call goes to the legacy composition call
SelectsLegacyPath ==
    /\ op.name = "applyEffect"
    /\ op.pre = "Initialized"
    /\ op.arg \in AcrylicClass
    /\ is_win7(WVER)
    /\ MechanismOn(WVER, VariantOf(op.arg)) = "accent"

\* C18: when SetWindowCompositionAttribute cannot be resolved (its library
\* does not load, or the library has no such export), an applyEffect that
\* selects the legacy path issues no composition call, returns success and
\* records the requested variant.
C18_UnresolvedSwcaAbsorbed ==
    (rtl = "ok" /\ SelectsLegacyPath /\ (~swca \/ swcaProc # "found"))
    => /\ \A i \in 1..Len(calls) : ~IsSwcaCall(calls[i])
       /\ result = Ok
       /\ VIBE_STATE = VariantOf(op.arg)

\* C16: under any interleaving of setup, applyEffect, clearEffects and
\* forceTheme calls, failed ones included, no step takes the state from
\* a value other than Uninitialized back to Uninitialized.
C16_NeverBackToUninitialized ==
    [][VIBE_STATE # "Uninitialized" => VIBE_STATE' # "Uninitialized"]_vars

\* C16 witness: an applyEffect has just failed under its write guard with
\* an effect recorded, while the other thread is in the middle of a call
C16_Witness ==
    /\ op.name = "applyEffect"
    /\ op.pre \in ActiveStates
    /\ result.kind \in {"UnknownEffect", "UnsupportedPlatform"}
    /\ VIBE_STATE \in ActiveStates
    /\ \E t \in Threads : threads[t].pc \in {"write_lock", "setup_lock"}

AllReturned == \A t \in Threads : threads[t].pc = "idle"

\* C19, the half that no failed call can break on its own: once every
\* concurrent applyEffect and clearEffects call has returned, no compositor
\* effect is natively active on the window other than the one the state
\* records, and none at all when the state is Initialized.  Runs in which
\* setup raced (the flag appended more than once) are left aside.
C19_NativeWithinRecorded ==
    (AllReturned /\ VIBE_STATE # "Uninitialized" /\ switches = 1)
    => \A h \in hwnds :
          LET mech == IF VIBE_STATE \in ActiveStates
                      THEN MechanismOn(WVER, VIBE_STATE)
                      ELSE "none"
          IN  /\ ActiveEffects(native[h]) <= 1
              /\ BackdropActive(native[h]) => mech = "backdrop"
              /\ LegacyMicaActive(native[h]) => mech = "legacy-mica"
              /\ AccentActive(native[h]) => mech = "accent"

\* a step of a thread that is inside setup
SetupStep == \E t \in Threads : threads[t].name = "setup" /\ threads'[t] # threads[t]

\* C20: under any interleaving, no step of a setup call changes a state
\* that is past Uninitialized (an effect recorded by an interleaved
\* applyEffect stays recorded), and appendSwitch runs at most once.
C20_SetupKeepsStateAndFlag ==
    [][ /\ (SetupStep /\ VIBE_STATE # "Uninitialized") => VIBE_STATE' = VIBE_STATE
        /\ switches' <= 1 ]_vars

\* the guards a thread holds
HoldsRead(t) == t \in lock.readers

HoldsWrite(t) == lock.writer = t

InCall(t) == threads[t].pc # "idle"

C22_ApplyClearRoundTrip ==
    /\ VIBE_STATE = "Initialized" =>
          \A effect \in ValidEffects, colour \in ColourArgs, h \in hwnds :
              LET a == apply_effect(WVER, swca, VIBE_STATE, native, h, effect, colour)
                  c == clear_effects(WVER, swca, a.state, a.win, h)
                  m == MechanismOn(WVER, a.state)
              IN  a.result = Ok =>
                     /\ a.state = VariantOf(effect)
                     /\ IsApplyOf(a.calls, m, h)
                     /\ Reaches(m) => ActiveEffects(a.win[h]) = 1
                     /\ IsClearOf(c.calls, m, h)
                     /\ c.result = Ok
                     /\ c.state = "Initialized"
                     /\ ActiveEffects(c.win[h]) = 0
                     /\ c.win[h].margins = 0
    /\ (op.name = "clearEffects" /\ op.pre \in ActiveStates) =>
          /\ ActiveEffects(native[op.hwnd]) = 0
          /\ native[op.hwnd].margins = 0

\* C22 witness: Mica applied through the legacy attribute on a build below
\* 22621 was cleared through the same attribute, margins back to 0
C22_Witness ==
    /\ op.name = "clearEffects"
    /\ op.pre = "Mica"
    /\ ~is_win11_22h2(WVER)
    /\ VIBE_STATE = "Initialized"
    /\ calls = << NativeCall("DwmExtendFrameIntoClientArea", op.hwnd, 0, 0, 0, 0),
                  NativeCall("DwmSetWindowAttribute", op.hwnd, DWMWA_MICA_EFFECT, 0, 0, 0) >>
    /\ native[op.hwnd].margins = 0
    /\ ~LegacyMicaActive(native[op.hwnd])

\* C23: the state is one value for the whole process while the native
\* calls go to the window of the call.  A clearEffects or applyEffect on
\* one window issues every native call on that window and leaves the
\* attributes of every other window as they were, also when the recorded
\* effect was applied to another window; the clearEffects still sets the
\* state to Initialized.
C23_ReversalOnCallWindowOnly ==
    [][ op'.name \in {"applyEffect", "clearEffects"} =>
            /\ \A i \in 1..Len(calls') : calls'[i].hwnd = op'.hwnd
            /\ \A h \in hwnds \ {op'.hwnd} : native'[h] = native[h]
            /\ (op'.name = "clearEffects" /\ VIBE_STATE \in ActiveStates) =>
                  VIBE_STATE' = "Initialized" ]_vars

\* C23 witness: Mica applied on window 1, then clearEffects on window 2:
\* the clear sequence ran on window 2, the state is Initialized, and
\* window 1 still carries Mica with its frame extended
C23_Witness ==
    /\ op.name = "clearEffects"
    /\ op.hwnd = 2
    /\ op.pre = "Mica"
    /\ VIBE_STATE = "Initialized"
    /\ Len(calls) = 2
    /\ \A i \in 1..Len(calls) : calls[i].hwnd = 2
    /\ ActiveEffects(native[1]) = 1
    /\ native[1].margins = -1
    /\ ActiveEffects(native[2]) = 0

=============================================================================
